---- MODULE Spec2Model ----
(***************************************************************************)
(* A model of simple-mesh-viewer: the mesh geometry (src/src/mesh.py), the *)
(* drawing window (src/src/window.py) and the mouse-driven application     *)
(* (src/src/mesh_renderer.py).                                             *)
(*                                                                         *)
(* Numbers.  The program computes in floating point; the model computes    *)
(* in exact arithmetic:                                                    *)
(*   - a coordinate is held as an integer count of 1/num_vertices units    *)
(*     (the mean of num_vertices such coordinates is again such a count);  *)
(*   - a length is held by its square;                                     *)
(*   - an angle is a rational number of degrees [num, den]; the pointer    *)
(*     positions are chosen so that every angle is a multiple of 90        *)
(*     degrees, the only rational angles whose sine and cosine are both    *)
(*     rational;                                                           *)
(*   - a quotient a / sqrt(r) is held as the record [num |-> a, rad |-> r].*)
(* Optional values: None is the empty tuple, a present value v is <<v>>.   *)
(***************************************************************************)
EXTENDS Integers, Sequences, FiniteSets, TLC

VARIABLES
    pc,                        \* "start", "running", "load_failed", "exited"
    file,                      \* the rows of the mesh file given on the command line
    vertices,                  \* Mesh.vertices: one column (a tuple of coordinates) per vertex
    num_vertices,              \* Mesh.num_vertices
    faces,                     \* Mesh.faces: one row of three vertex indices per face
    num_faces,                 \* Mesh.num_faces
    edge_indices,              \* Mesh.edge_indices
    limit_sq,                  \* Window.limit, squared
    drawn,                     \* what that callback plotted on the figure: [points, lines, patches]
    mouse_is_pressed,          \* MeshRendererApp.mouse_is_pressed
    last_mouse_drag_location,  \* MeshRendererApp.last_mouse_drag_location
    event,                     \* the callback the event loop ran last, with its arguments
    calls,                     \* the Mesh methods that callback invoked, in order
    raised,                    \* the exception that callback raised, or "none"
    frame,                     \* the per-face values that callback computed for drawing
    dist_sq_at_load,           \* squared distance of each vertex from the centroid, at load
    pure_args,                 \* arguments of a function applied on its own
    pure_result                \* its result

vars == <<pc, file, vertices, num_vertices, faces, num_faces, edge_indices, limit_sq,
          drawn, mouse_is_pressed, last_mouse_drag_location, event, calls, raised,
          frame, dist_sq_at_load, pure_args, pure_result>>

meshVars == <<vertices, num_vertices, faces, num_faces, edge_indices>>
pureVars == <<pure_args, pure_result>>

-----------------------------------------------------------------------------
(* Bounds of the model *)

\* pointer positions are 0..MaxStep pixel steps on each axis
MaxStep == 1
\* alignment scores applied to the colour map on its own are k / ScoreDen, k in 0..ScoreDen
ScoreDen == 20
\* draw_triangles on its own is applied to lists of at most MaxTriangles faces
MaxTriangles == 3
\* ... whose render-order values are in -MaxKey..MaxKey
MaxKey == 1
\* rotate_about_x_and_y on its own is applied to angles of -MaxTurns..MaxTurns quarter turns
MaxTurns == 2

-----------------------------------------------------------------------------
(* Program constants *)

DegreesPerFullScreenMouseMove == 200
FigSizeInchesTenths == 64
Dpi == 100
BlueMinDefault == 95
BlueMaxDefault == 255
BlueScale == 255

-----------------------------------------------------------------------------
(* Optional values and small helpers *)

None == <<>>
Some(v) == <<v>>
IsNone(o) == o = <<>>
Get(o) == o[1]

RECURSIVE SumSeq(_)
SumSeq(s) == IF s = <<>> THEN 0 ELSE Head(s) + SumSeq(Tail(s))

Abs(n) == IF n < 0 THEN -n ELSE n

Dot(u, v) == SumSeq([i \in 1..Len(u) |-> u[i] * v[i]])

\* the slice s[1:]
DropFirst(s) == IF s = <<>> THEN <<>> ELSE Tail(s)

Min(a, b) == IF a <= b THEN a ELSE b

-----------------------------------------------------------------------------
(* The mesh file: a sequence of rows, each a sequence of fields.  A field  *)
(* is <<n>> for the integer literal n and <<>> for text that is no number. *)

Text == <<>>
IsNumeric(field) == Len(field) = 1
AllNumeric(row) == \A i \in 1..Len(row) : IsNumeric(row[i])
Values(row) == [i \in 1..Len(row) |-> row[i][1]]
Row(ints) == [i \in 1..Len(ints) |-> <<ints[i]>>]
SameLength(rs) == \A i, j \in 1..Len(rs) : Len(rs[i]) = Len(rs[j])

Failure(kind) ==
    [ok |-> FALSE, error |-> kind, vertices |-> <<>>, num_vertices |-> 0,
     faces |-> <<>>, num_faces |-> 0, edge_indices |-> {}]

\* vertex_id_to_index: the assertion checks the lower end of the range only
VertexIdAccepted(vertex_id) == 1 <= vertex_id
vertex_id_to_index(vertex_id) == vertex_id - 1

\* Mesh.compute_edge_indices: a set of (start, end) tuples, three per face
compute_edge_indices(fs) ==
    UNION { { <<fs[i][1], fs[i][2]>>, <<fs[i][1], fs[i][3]>>, <<fs[i][2], fs[i][3]>> }
            : i \in 1..Len(fs) }

\* Mesh.__init__ on the arrays np.array built.  vs: the vertex rows without
\* their id (V rows of k numbers, transposed to k x V); fs: the face rows.
NewMesh(vs, fs) ==
    IF Len(vs) = 0
    THEN Failure("IndexError")              \* vertices.shape[1] of a 1-d array
    ELSE IF Len(fs) = 0 \/ Len(fs[1]) # 3
    THEN Failure("AssertionError")          \* 'Faces must have dimensions F x 3'
    ELSE [ok |-> TRUE, error |-> "none",
          vertices |-> [j \in 1..Len(vs) |->
                           [i \in 1..Len(vs[j]) |-> vs[j][i] * Len(vs)]],
          num_vertices |-> Len(vs),
          faces |-> fs,
          num_faces |-> Len(fs),
          edge_indices |-> compute_edge_indices(fs)]

\* read_mesh_from_file: the rows are consumed in file order
read_mesh_from_file(rows) ==
    IF Len(rows) = 0 THEN Failure("StopIteration")
    ELSE IF Len(rows[1]) < 2 THEN Failure("IndexError")
    ELSE IF ~ (IsNumeric(rows[1][1]) /\ IsNumeric(rows[1][2])) THEN Failure("ValueError")
    ELSE
    LET nv == IF rows[1][1][1] > 0 THEN rows[1][1][1] ELSE 0
        nf == IF rows[1][2][1] > 0 THEN rows[1][2][1] ELSE 0
        have == Len(rows) - 1
        vread == IF nv <= have THEN nv ELSE have
        fread == IF nv + nf <= have THEN nf ELSE IF nv <= have THEN have - nv ELSE 0
        vrows == SubSeq(rows, 2, 1 + vread)
        frows == SubSeq(rows, 2 + nv, 1 + nv + fread)
        vs == [j \in 1..Len(vrows) |-> DropFirst(Values(vrows[j]))]
        fs == [j \in 1..Len(frows) |->
                  [i \in 1..Len(frows[j]) |-> vertex_id_to_index(frows[j][i][1])]]
    IN  IF \E j \in 1..Len(vrows) : ~ AllNumeric(vrows[j]) THEN Failure("ValueError")
        ELSE IF vread < nv THEN Failure("StopIteration")
        ELSE IF ~ SameLength(vrows) THEN Failure("ValueError")
        ELSE IF \E j \in 1..Len(frows) : ~ AllNumeric(frows[j]) THEN Failure("ValueError")
        ELSE IF \E j \in 1..Len(frows) : \E i \in 1..Len(frows[j]) :
                    ~ VertexIdAccepted(frows[j][i][1])
        THEN Failure("AssertionError")
        ELSE IF fread < nf THEN Failure("StopIteration")
        ELSE IF ~ SameLength(frows) THEN Failure("ValueError")
        ELSE NewMesh(vs, fs)

-----------------------------------------------------------------------------
(* Mesh geometry.  vs is the value of Mesh.vertices: a tuple of columns.   *)

\* number of rows of the vertex array (3 for a well-formed file)
Dim(vs) == Len(vs[1])

\* Mesh.get_center: the mean of every row
get_center(vs) ==
    [i \in 1..Dim(vs) |-> SumSeq([j \in 1..Len(vs) |-> vs[j][i]]) \div Len(vs)]

\* Mesh.center_at_origin: vertices -= center, repeated for every column
center_at_origin(vs) ==
    LET center == get_center(vs)
    IN  [j \in 1..Len(vs) |-> [i \in 1..Dim(vs) |-> vs[j][i] - center[i]]]

\* squared distance of vertex j from the centre
DistSqFromCenter(vs, j) ==
    LET center == get_center(vs)
        d == [i \in 1..Dim(vs) |-> vs[j][i] - center[i]]
    IN  Dot(d, d)

\* Mesh.get_furthest_vertex_distance, squared
get_furthest_vertex_distance_sq(vs) ==
    LET norms == {DistSqFromCenter(vs, j) : j \in 1..Len(vs)}
    IN  CHOOSE m \in norms : \A n \in norms : n <= m

\* np.sin and np.cos of np.deg2rad(deg), deg = [num, den] a multiple of 90 degrees
QuarterTurns(deg) == (deg.num \div (90 * deg.den)) % 4
IsQuarterTurn(deg) == deg.num % (90 * deg.den) = 0
SinDeg(deg) ==
    CASE IsQuarterTurn(deg) /\ QuarterTurns(deg) = 0 -> 0
      [] IsQuarterTurn(deg) /\ QuarterTurns(deg) = 1 -> 1
      [] IsQuarterTurn(deg) /\ QuarterTurns(deg) = 2 -> 0
      [] IsQuarterTurn(deg) /\ QuarterTurns(deg) = 3 -> -1
CosDeg(deg) ==
    CASE IsQuarterTurn(deg) /\ QuarterTurns(deg) = 0 -> 1
      [] IsQuarterTurn(deg) /\ QuarterTurns(deg) = 1 -> 0
      [] IsQuarterTurn(deg) /\ QuarterTurns(deg) = 2 -> -1
      [] IsQuarterTurn(deg) /\ QuarterTurns(deg) = 3 -> 0

\* a slip in one entry of R: s_y * c_x where the code has s_y * s_x
RotationMatrixWrongEntry(degrees_about_x, degrees_about_y) ==
    LET s_y == SinDeg(degrees_about_y)
        c_y == CosDeg(degrees_about_y)
        s_x == SinDeg(degrees_about_x)
        c_x == CosDeg(degrees_about_x)
    IN  << <<c_y, s_y * c_x, s_y * c_x>>,
           <<0, c_x, -s_x>>,
           <<-s_y, c_y * s_x, c_y * c_x>> >>

\* a slip in the hand-computed product: the two rotations in the other order
RotationMatrixOtherOrder(degrees_about_x, degrees_about_y) ==
    LET s_y == SinDeg(degrees_about_y)
        c_y == CosDeg(degrees_about_y)
        s_x == SinDeg(degrees_about_x)
        c_x == CosDeg(degrees_about_x)
    IN  << <<c_y, 0, s_y>>,
           <<s_x * s_y, c_x, -s_x * c_y>>,
           <<-c_x * s_y, s_x, c_x * c_y>> >>

\* the matrix R of Mesh.rotate_about_x_and_y
RotationMatrix(degrees_about_x, degrees_about_y) ==
    LET s_y == SinDeg(degrees_about_y)
        c_y == CosDeg(degrees_about_y)
        s_x == SinDeg(degrees_about_x)
        c_x == CosDeg(degrees_about_x)
    IN  << <<c_y, s_y * s_x, s_y * c_x>>,
           <<0, c_x, -s_x>>,
           <<-s_y, c_y * s_x, c_y * c_x>> >>

\* np.matmul(R, vertices) is defined for a 3 x V vertex array only
MatMulRaises(vs) == Dim(vs) # 3

\* Mesh.rotate: vertices = np.matmul(R, vertices)
rotate(vs, R) == [j \in 1..Len(vs) |-> [i \in 1..3 |-> Dot(R[i], vs[j])]]

\* Mesh.rotate_about_x_and_y
rotate_about_x_and_y(vs, degrees_about_x, degrees_about_y) ==
    rotate(vs, RotationMatrix(degrees_about_x, degrees_about_y))

\* Mesh.project_vertices_onto_window: the first two rows
project_vertices_onto_window(vs) ==
    [j \in 1..Len(vs) |-> SubSeq(vs[j], 1, Min(2, Dim(vs)))]

\* indexing a column of the vertex array with a zero-based index
IndexRaises(vs, idx) == idx < 0 \/ idx >= Len(vs)
Column(arr, idx) == arr[idx + 1]

\* Mesh.get_projected_edges raises IndexError on an index that is no vertex
\* and on a projection that has no second row
ProjectedEdgesRaises(vs, edges) ==
    \/ \E e \in edges : IndexRaises(vs, e[1]) \/ IndexRaises(vs, e[2])
    \/ (edges # {} /\ Dim(vs) < 2)

\* Mesh.get_projected_edges: the start and end point of every edge
get_projected_edges(vs, edges) ==
    LET projected_vertices == project_vertices_onto_window(vs)
    IN  [e \in edges |-> <<Column(projected_vertices, e[1]),
                           Column(projected_vertices, e[2])>>]

\* Mesh.get_projected_faces: three 2D points per face
get_projected_faces(vs, fs) ==
    LET projected_vertices == project_vertices_onto_window(vs)
    IN  [f \in 1..Len(fs) |-> [p \in 1..3 |-> Column(projected_vertices, fs[f][p])]]

\* Mesh.get_face_z_values: the z centroid of every face, held as the sum of
\* the three z coordinates (a count of 1/(3 num_vertices) units)
get_face_z_values(vs, fs) ==
    [f \in 1..Len(fs) |-> SumSeq([p \in 1..3 |-> Column(vs, fs[f][p])[3]])]

\* np.cross of two 3-vectors
Cross(u, v) ==
    << u[2] * v[3] - u[3] * v[2],
       u[3] * v[1] - u[1] * v[3],
       u[1] * v[2] - u[2] * v[1] >>

\* normal /= np.linalg.norm(normal): every component divided by the length.
\* The code divides whatever the length is: a zero cross product gives 0/0.
DivideByNorm(normal) ==
    LET norm_sq == Dot(normal, normal)
    IN  [i \in 1..3 |-> [num |-> normal[i], rad |-> norm_sq]]

\* a quotient whose divisor is zero (NaN in floating point)
IsNaN(q) == q.rad = 0

\* Mesh.get_face_normals
get_face_normals(vs, fs) ==
    [f \in 1..Len(fs) |->
        LET face == [p \in 1..3 |-> Column(vs, fs[f][p])]
            face_plane_span_vector1 == [i \in 1..3 |-> face[2][i] - face[1][i]]
            face_plane_span_vector2 == [i \in 1..3 |-> face[3][i] - face[1][i]]
        IN  DivideByNorm(Cross(face_plane_span_vector1, face_plane_span_vector2))]

-----------------------------------------------------------------------------
(* The window *)

\* Window.get_figure_resolution: fig.get_size_inches() * fig.dpi, both axes
get_figure_resolution ==
    << (FigSizeInchesTenths * Dpi) \div 10, (FigSizeInchesTenths * Dpi) \div 10 >>

\* Window._compute_projection_norm_with_z_axis: |normal . (0, 0, 1)| per face
compute_projection_norm_with_z_axis(normals) ==
    [f \in 1..Len(normals) |->
        [num |-> Abs(normals[f][3].num), rad |-> normals[f][3].rad]]

\* a slip in the interpolation: blue_max where the code has blue_max - blue_min
get_face_color_unshifted(projection_norm, blue_min, blue_max) ==
    << 0, 0,
       [int |-> blue_min,
        num |-> projection_norm.num * blue_max,
        rad |-> projection_norm.rad,
        den |-> BlueScale],
       1 >>

\* Window._get_face_color_from_projection_norm.  The blue channel
\*   (blue_min + projection_norm * (blue_max - blue_min)) / 255
\* is held as [int, num, rad, den], standing for (int + num / sqrt(rad)) / den.
get_face_color_from_projection_norm(projection_norm, blue_min, blue_max) ==
    << 0, 0,
       [int |-> blue_min,
        num |-> projection_norm.num * (blue_max - blue_min),
        rad |-> projection_norm.rad,
        den |-> BlueScale],
       1 >>

\* Window._get_face_colors_from_normals
get_face_colors_from_normals(normals) ==
    LET projection_norms == compute_projection_norm_with_z_axis(normals)
    IN  [f \in 1..Len(normals) |->
            get_face_color_from_projection_norm(projection_norms[f],
                                                BlueMinDefault, BlueMaxDefault)]

\* zip(triangles, colors, render_order_values): as long as the shortest list
Zip3(triangles, colors, render_order_values) ==
    [i \in 1..Min(Len(triangles), Min(Len(colors), Len(render_order_values))) |->
        <<triangles[i], colors[i], render_order_values[i]>>]

\* an unstable sort: an item goes before the items of equal key
RECURSIVE InsertBeforeEqualKey(_, _)
InsertBeforeEqualKey(sorted, item) ==
    IF sorted = <<>> THEN <<item>>
    ELSE IF item[3] <= Head(sorted)[3] THEN <<item>> \o sorted
    ELSE <<Head(sorted)>> \o InsertBeforeEqualKey(Tail(sorted), item)

\* sorted(..., key=lambda x: x[2]) is a stable sort: an item goes behind
\* every item whose key is not greater than its own
RECURSIVE InsertByKey(_, _)
InsertByKey(sorted, item) ==
    IF sorted = <<>> THEN <<item>>
    ELSE IF item[3] < Head(sorted)[3] THEN <<item>> \o sorted
    ELSE <<Head(sorted)>> \o InsertByKey(Tail(sorted), item)

RECURSIVE SortedByKey(_)
SortedByKey(items) ==
    IF items = <<>> THEN <<>>
    ELSE InsertByKey(SortedByKey(SubSeq(items, 1, Len(items) - 1)), items[Len(items)])

\* Window._sort_faces_by_render_order_values: the zipped lists in render order;
\* unpacking zip(*sorted_lists) of no item at all raises ValueError
SortRaises(triangles, colors, render_order_values) ==
    Zip3(triangles, colors, render_order_values) = <<>>
sort_faces_by_render_order_values(triangles, colors, render_order_values) ==
    SortedByKey(Zip3(triangles, colors, render_order_values))

\* Window.draw_triangle asserts a (3, 2) array of points
DrawTriangleRaises(points) ==
    ~ (Len(points) = 3 /\ \A p \in 1..3 : Len(points[p]) = 2)

\* the patches the loop of Window.draw_triangles adds until one raises
RECURSIVE DrawEach(_)
DrawEach(items) ==
    IF items = <<>> THEN <<>>
    ELSE IF DrawTriangleRaises(Head(items)[1]) THEN <<>>
    ELSE <<[points |-> Head(items)[1], color |-> Head(items)[2]]>> \o DrawEach(Tail(items))

\* Window.draw_triangles: the patches added to the figure, and the exception raised
draw_triangles(triangles, colors, render_order_values) ==
    IF ~ (Len(triangles) = Len(colors) /\ Len(colors) = Len(render_order_values))
    THEN [raised |-> "AssertionError", patches |-> <<>>]
    ELSE IF SortRaises(triangles, colors, render_order_values)
    THEN [raised |-> "ValueError", patches |-> <<>>]
    ELSE LET items == sort_faces_by_render_order_values(triangles, colors,
                                                         render_order_values)
             added == DrawEach(items)
         IN  [raised |-> IF Len(added) < Len(items) THEN "AssertionError" ELSE "none",
              patches |-> added]

\* nothing plotted: the figure after Window.clear, and a callback that plots nothing
NothingDrawn == [points |-> <<>>, lines |-> <<>>, patches |-> <<>>]
ClearedCanvas == NothingDrawn

NoFrame == [computed |-> FALSE, normals |-> <<>>, face_z_values |-> <<>>, colors |-> <<>>]

\* MeshRendererApp.update: Window.clear, then Window.plot_mesh(mesh).  The
\* result is what the call plotted on the cleared figure, the per-face values
\* it computed and the exception that ended it.
update(vs, fs, edges) ==
    IF ProjectedEdgesRaises(vs, edges)
    THEN [plotted |-> ClearedCanvas, frame |-> NoFrame, raised |-> "IndexError"]
    ELSE
    LET wire == [points |-> project_vertices_onto_window(vs),
                 lines |-> get_projected_edges(vs, edges),
                 patches |-> <<>>]
    IN  IF Dim(vs) # 3
        THEN [plotted |-> wire, frame |-> NoFrame, raised |-> "ValueError"]  \* np.cross
        ELSE
        LET projected == get_projected_faces(vs, fs)
            normals == get_face_normals(vs, fs)
            face_z_values == get_face_z_values(vs, fs)
            colors == get_face_colors_from_normals(normals)
            result == draw_triangles(projected, colors, face_z_values)
        IN  [plotted |-> [wire EXCEPT !.patches = result.patches],
             frame |-> [computed |-> TRUE, normals |-> normals,
                        face_z_values |-> face_z_values, colors |-> colors],
             raised |-> result.raised]

-----------------------------------------------------------------------------
(* The application: MeshRendererApp *)

Call(name, args) == [name |-> name, args |-> args]

\* MeshRendererApp.normalize_by_figure_resolution: pixels / resolution, per axis
normalize_by_figure_resolution(x_pixels, y_pixels) ==
    LET fig_size == get_figure_resolution
    IN  << [num |-> x_pixels, den |-> fig_size[1]],
           [num |-> y_pixels, den |-> fig_size[2]] >>

\* MeshRendererApp.rotate_mesh_based_on_mouse_move: the two angles handed to
\* Mesh.rotate_about_x_and_y, <<degrees about x, degrees about y>>
MouseMoveDegrees(last, current_mouse_x, current_mouse_y) ==
    LET x_displacement == current_mouse_x - Get(last[1])
        y_displacement == current_mouse_y - Get(last[2])
        normalized == normalize_by_figure_resolution(x_displacement, y_displacement)
    IN  << [num |-> (- normalized[2].num) * DegreesPerFullScreenMouseMove,
            den |-> normalized[2].den],
           [num |-> normalized[1].num * DegreesPerFullScreenMouseMove,
            den |-> normalized[1].den] >>

\* MeshRendererApp.rotate_mesh_based_on_mouse_move
rotate_mesh_based_on_mouse_move(vs, last, current_mouse_x, current_mouse_y) ==
    IF IsNone(last) \/ IsNone(last[1]) \/ IsNone(last[2])
    THEN [vertices |-> vs, calls |-> <<>>, raised |-> "TypeError"]
    ELSE LET degrees == MouseMoveDegrees(last, current_mouse_x, current_mouse_y)
             call == Call("rotate_about_x_and_y", degrees)
         IN  IF MatMulRaises(vs)
             THEN [vertices |-> vs, calls |-> <<call>>, raised |-> "ValueError"]
             ELSE [vertices |-> rotate_about_x_and_y(vs, degrees[1], degrees[2]),
                   calls |-> <<call>>, raised |-> "none"]

\* a press that records no position
on_press_forgetting_location(x, y) == [mouse_is_pressed |-> TRUE, last |-> None]

\* MeshRendererApp.on_press
on_press(x, y) == [mouse_is_pressed |-> TRUE, last |-> <<x, y>>]

\* a release that keeps the recorded position
on_release_keeping_location ==
    [mouse_is_pressed |-> FALSE, last |-> last_mouse_drag_location]

\* MeshRendererApp.on_release
on_release == [mouse_is_pressed |-> FALSE, last |-> None]

\* a move handler that records the position of a move it ignores
on_motion_recording_ignored(vs, pressed, last, x, y) ==
    IF ~ pressed
    THEN [vertices |-> vs, last |-> last, calls |-> <<>>, raised |-> "none"]
    ELSE IF IsNone(x) \/ IsNone(y)
    THEN [vertices |-> vs, last |-> <<x, y>>, calls |-> <<>>, raised |-> "none"]
    ELSE LET r == rotate_mesh_based_on_mouse_move(vs, last, Get(x), Get(y))
         IN  IF r.raised # "none"
             THEN [vertices |-> r.vertices, last |-> last,
                   calls |-> r.calls, raised |-> r.raised]
             ELSE [vertices |-> center_at_origin(r.vertices), last |-> <<x, y>>,
                   calls |-> r.calls \o <<Call("center_at_origin", <<>>)>>,
                   raised |-> "none"]

\* a move handler that rotates without recentering
on_motion_without_recentering(vs, pressed, last, x, y) ==
    IF ~ pressed
    THEN [vertices |-> vs, last |-> last, calls |-> <<>>, raised |-> "none"]
    ELSE IF IsNone(x) \/ IsNone(y)
    THEN [vertices |-> vs, last |-> last, calls |-> <<>>, raised |-> "none"]
    ELSE LET r == rotate_mesh_based_on_mouse_move(vs, last, Get(x), Get(y))
         IN  IF r.raised # "none"
             THEN [vertices |-> r.vertices, last |-> last,
                   calls |-> r.calls, raised |-> r.raised]
             ELSE [vertices |-> r.vertices, last |-> <<x, y>>,
                   calls |-> r.calls, raised |-> "none"]

\* a move handler that takes a missing coordinate for 0
on_motion_missing_as_zero(vs, pressed, last, x, y) ==
    IF ~ pressed
    THEN [vertices |-> vs, last |-> last, calls |-> <<>>, raised |-> "none"]
    ELSE LET current_mouse_x == IF IsNone(x) THEN 0 ELSE Get(x)
             current_mouse_y == IF IsNone(y) THEN 0 ELSE Get(y)
             r == rotate_mesh_based_on_mouse_move(vs, last, current_mouse_x, current_mouse_y)
         IN  IF r.raised # "none"
             THEN [vertices |-> r.vertices, last |-> last,
                   calls |-> r.calls, raised |-> r.raised]
             ELSE [vertices |-> center_at_origin(r.vertices),
                   last |-> <<Some(current_mouse_x), Some(current_mouse_y)>>,
                   calls |-> r.calls \o <<Call("center_at_origin", <<>>)>>,
                   raised |-> "none"]

\* MeshRendererApp.on_motion: x and y are the optional event.x and event.y
on_motion(vs, pressed, last, x, y) ==
    IF ~ pressed
    THEN [vertices |-> vs, last |-> last, calls |-> <<>>, raised |-> "none"]
    ELSE IF IsNone(x) \/ IsNone(y)
    THEN [vertices |-> vs, last |-> last, calls |-> <<>>, raised |-> "none"]
    ELSE LET r == rotate_mesh_based_on_mouse_move(vs, last, Get(x), Get(y))
         IN  IF r.raised # "none"
             THEN [vertices |-> r.vertices, last |-> last,
                   calls |-> r.calls, raised |-> r.raised]
             ELSE [vertices |-> center_at_origin(r.vertices), last |-> <<x, y>>,
                   calls |-> r.calls \o <<Call("center_at_origin", <<>>)>>,
                   raised |-> "none"]

\* the Mesh object of the application: self.mesh
TheMesh ==
    [vertices |-> vertices, num_vertices |-> num_vertices, faces |-> faces,
     num_faces |-> num_faces, edge_indices |-> edge_indices]

\* a write that also puts the faces in another order (here: the reverse)
AssignVerticesReorderingFaces(mesh, vs) ==
    [mesh EXCEPT !.vertices = vs,
                 !.faces = [f \in 1..Len(mesh.faces) |->
                               mesh.faces[Len(mesh.faces) + 1 - f]]]

\* what Mesh.rotate and Mesh.center_at_origin write: self.vertices, and no
\* other attribute of the mesh
AssignVertices(mesh, vs) == [mesh EXCEPT !.vertices = vs]

-----------------------------------------------------------------------------
(* Inputs *)

\* a pointer displacement of one PixelStep turns the mesh by 90 degrees
PixelStep == (90 * get_figure_resolution[1]) \div DegreesPerFullScreenMouseMove
Positions == {k * PixelStep : k \in 0..MaxStep}
OptionalPositions == {Some(p) : p \in Positions} \cup {None}
Keys == {"q", "a"}

\* the example file of the specification: a tetrahedron
Tetrahedron ==
    << Row(<<4, 4>>),
       Row(<<1, 0, 0, 0>>), Row(<<2, 1, 0, 0>>), Row(<<3, 0, 1, 0>>), Row(<<4, 0, 0, 1>>),
       Row(<<1, 2, 3>>), Row(<<1, 2, 4>>), Row(<<1, 3, 4>>), Row(<<2, 3, 4>>) >>

\* two triangles that run along their shared edge in opposite directions, a
\* face of three collinear vertices and a face that repeats a vertex
Patchwork ==
    << Row(<<5, 4>>),
       Row(<<1, 0, 0, 0>>), Row(<<2, 1, 0, 0>>), Row(<<3, 0, 1, 0>>), Row(<<4, 1, 1, 1>>),
       Row(<<5, 2, 0, 0>>),
       Row(<<1, 2, 3>>), Row(<<2, 1, 4>>), Row(<<1, 2, 5>>), Row(<<1, 1, 4>>) >>

WellFormedFiles == {Tetrahedron, Patchwork}

HeaderVertices(f) == f[1][1][1]
HeaderFaces(f) == f[1][2][1]
VertexRows(f) == 2..(1 + HeaderVertices(f))
FaceRows(f) == (2 + HeaderVertices(f))..(1 + HeaderVertices(f) + HeaderFaces(f))
FirstFaceRow(f) == 2 + HeaderVertices(f)

DropColumn(f, rs) ==
    [r \in 1..Len(f) |-> IF r \in rs THEN SubSeq(f[r], 1, Len(f[r]) - 1) ELSE f[r]]
AddColumn(f, rs) ==
    [r \in 1..Len(f) |-> IF r \in rs THEN Append(f[r], <<1>>) ELSE f[r]]
WithField(f, r, c, field) == [f EXCEPT ![r][c] = field]

\* every file got from a well-formed one by spoiling one row (a column less,
\* a column more, a field that is no number, a vertex id 0, in the first face
\* row a vertex id numVertices + 1), or all the vertex rows or all the face
\* rows alike
SpoiledFiles ==
    UNION { {DropColumn(f, {r}) : r \in 2..Len(f)}
            \cup {AddColumn(f, {r}) : r \in 2..Len(f)}
            \cup {WithField(f, r, 2, Text) : r \in 2..Len(f)}
            \cup {WithField(f, r, 1, <<0>>) : r \in FaceRows(f)}
            \cup {WithField(f, FirstFaceRow(f), 1, <<HeaderVertices(f) + 1>>)}
            \cup {DropColumn(f, VertexRows(f)), AddColumn(f, VertexRows(f)),
                  DropColumn(f, FaceRows(f)), AddColumn(f, FaceRows(f))}
          : f \in WellFormedFiles }

Files == WellFormedFiles \cup SpoiledFiles

Event(name, x, y, key) == [name |-> name, x |-> x, y |-> y, key |-> key]

-----------------------------------------------------------------------------
(* The program: main builds the application from the file, then the event  *)
(* loop runs one callback at a time                                         *)

Init ==
    /\ pc = "start"
    /\ file \in Files
    /\ vertices = <<>>
    /\ num_vertices = 0
    /\ faces = <<>>
    /\ num_faces = 0
    /\ edge_indices = {}
    /\ limit_sq = 0
    /\ drawn = NothingDrawn
    /\ mouse_is_pressed = FALSE
    /\ last_mouse_drag_location = None
    /\ event = Event("none", None, None, "")
    /\ calls = <<>>
    /\ raised = "none"
    /\ frame = NoFrame
    /\ dist_sq_at_load = <<>>
    /\ pure_args = <<>>
    /\ pure_result = <<>>

\* main and MeshRendererApp.__init__
Startup ==
    /\ pc = "start"
    /\ LET mesh == read_mesh_from_file(file)
       IN  IF ~ mesh.ok
           THEN /\ pc' = "load_failed"
                /\ raised' = mesh.error
                /\ calls' = <<Call("read_mesh_from_file", <<>>)>>
                /\ UNCHANGED <<meshVars, limit_sq, dist_sq_at_load>>
           ELSE /\ pc' = "running"
                /\ raised' = "none"
                /\ LET centered == AssignVertices(mesh, center_at_origin(mesh.vertices))
                   IN  /\ vertices' = centered.vertices
                       /\ num_vertices' = centered.num_vertices
                       /\ faces' = centered.faces
                       /\ num_faces' = centered.num_faces
                       /\ edge_indices' = centered.edge_indices
                /\ limit_sq' = get_furthest_vertex_distance_sq(center_at_origin(mesh.vertices))
                /\ dist_sq_at_load' =
                      [j \in 1..mesh.num_vertices |-> DistSqFromCenter(mesh.vertices, j)]
                /\ calls' = <<Call("read_mesh_from_file", <<>>),
                              Call("center_at_origin", <<>>),
                              Call("get_furthest_vertex_distance", <<>>)>>
    /\ mouse_is_pressed' = FALSE
    /\ last_mouse_drag_location' = None
    /\ event' = Event("__init__", None, None, "")
    /\ drawn' = NothingDrawn
    /\ frame' = NoFrame
    /\ UNCHANGED <<file, pureVars>>

\* button_press_event
OnPress ==
    /\ pc = "running"
    /\ \E x \in Positions, y \in Positions :
          LET r == on_press(Some(x), Some(y))
          IN  /\ mouse_is_pressed' = r.mouse_is_pressed
              /\ last_mouse_drag_location' = r.last
              /\ event' = Event("on_press", Some(x), Some(y), "")
    /\ calls' = <<>>
    /\ raised' = "none"
    /\ drawn' = NothingDrawn
    /\ frame' = NoFrame
    /\ UNCHANGED <<pc, file, meshVars, limit_sq, dist_sq_at_load, pureVars>>

\* button_release_event
OnRelease ==
    /\ pc = "running"
    /\ mouse_is_pressed' = on_release.mouse_is_pressed
    /\ last_mouse_drag_location' = on_release.last
    /\ event' = Event("on_release", None, None, "")
    /\ calls' = <<>>
    /\ raised' = "none"
    /\ drawn' = NothingDrawn
    /\ frame' = NoFrame
    /\ UNCHANGED <<pc, file, meshVars, limit_sq, dist_sq_at_load, pureVars>>

\* motion_notify_event
OnMotion ==
    /\ pc = "running"
    /\ \E x \in OptionalPositions, y \in OptionalPositions :
          \E r \in {on_motion(vertices, mouse_is_pressed, last_mouse_drag_location, x, y)} :
          \E mesh \in {IF r.calls # <<>> /\ r.raised = "none"
                       THEN AssignVertices(TheMesh, r.vertices)
                       ELSE TheMesh} :
              /\ vertices' = mesh.vertices
              /\ num_vertices' = mesh.num_vertices
              /\ faces' = mesh.faces
              /\ num_faces' = mesh.num_faces
              /\ edge_indices' = mesh.edge_indices
              /\ last_mouse_drag_location' = r.last
              /\ calls' = r.calls
              /\ raised' = r.raised
              /\ event' = Event("on_motion", x, y, "")
    /\ drawn' = NothingDrawn
    /\ frame' = NoFrame
    /\ UNCHANGED <<pc, file, limit_sq, mouse_is_pressed, dist_sq_at_load, pureVars>>

\* key_press_event: MeshRendererApp.on_key_press quits on "q"
OnKeyPress ==
    /\ pc = "running"
    /\ \E key \in Keys :
          /\ pc' = IF key = "q" THEN "exited" ELSE pc
          /\ event' = Event("on_key_press", None, None, key)
    /\ calls' = <<>>
    /\ raised' = "none"
    /\ drawn' = NothingDrawn
    /\ frame' = NoFrame
    /\ UNCHANGED <<file, meshVars, limit_sq, mouse_is_pressed,
                   last_mouse_drag_location, dist_sq_at_load, pureVars>>

\* a tick of FuncAnimation: MeshRendererApp.update
Update ==
    /\ pc = "running"
    /\ LET r == update(vertices, faces, edge_indices)
       IN  /\ drawn' = r.plotted
           /\ frame' = r.frame
           /\ raised' = r.raised
    /\ event' = Event("update", None, None, "")
    /\ calls' = <<>>
    /\ UNCHANGED <<pc, file, meshVars, limit_sq, mouse_is_pressed,
                   last_mouse_drag_location, dist_sq_at_load, pureVars>>

Next ==
    \/ Startup
    \/ OnPress
    \/ OnRelease
    \/ OnMotion
    \/ OnKeyPress
    \/ Update

Spec == Init /\ [][Next]_vars

-----------------------------------------------------------------------------
(* Window.draw_triangles applied on its own to bounded lists *)

\* the program's variables, unused while a function is applied on its own
NoProgram ==
    /\ pc = "function"
    /\ file = <<>>
    /\ vertices = <<>>
    /\ num_vertices = 0
    /\ faces = <<>>
    /\ num_faces = 0
    /\ edge_indices = {}
    /\ limit_sq = 0
    /\ drawn = NothingDrawn
    /\ mouse_is_pressed = FALSE
    /\ last_mouse_drag_location = None
    /\ event = Event("none", None, None, "")
    /\ calls = <<>>
    /\ raised = "none"
    /\ frame = NoFrame
    /\ dist_sq_at_load = <<>>

programVars == <<pc, file, meshVars, limit_sq, drawn, mouse_is_pressed,
                 last_mouse_drag_location, event, calls, raised, frame, dist_sq_at_load>>

\* pairwise different (3, 2) arrays of points
Triangle(i) == << <<i, 0>>, <<i + 1, 0>>, <<i, 1>> >>

\* pairwise different colours: those of the scores 0, 1/n, 2/n, ...
FaceColor(i) ==
    get_face_color_from_projection_norm(
        [num |-> i - 1, rad |-> MaxTriangles * MaxTriangles],
        BlueMinDefault, BlueMaxDefault)

\* lists of n triangles and n render-order values, with n colours or one fewer
DrawInputs ==
    UNION { { [triangles |-> [i \in 1..n |-> Triangle(i)],
               colors |-> [i \in 1..m |-> FaceColor(i)],
               render_order_values |-> ks]
              : m \in {n, n - 1} \cap (0..n),
                ks \in [1..n -> (-MaxKey)..MaxKey] }
            : n \in 0..MaxTriangles }

InitDraw ==
    /\ NoProgram
    /\ pure_args \in DrawInputs
    /\ pure_result = [done |-> FALSE, raised |-> "none", patches |-> <<>>]

ApplyDrawTriangles ==
    /\ pc = "function"
    /\ ~ pure_result.done
    /\ LET r == draw_triangles(pure_args.triangles, pure_args.colors,
                               pure_args.render_order_values)
       IN  pure_result' = [done |-> TRUE, raised |-> r.raised, patches |-> r.patches]
    /\ UNCHANGED <<programVars, pure_args>>

NextDraw == ApplyDrawTriangles

SpecDraw == InitDraw /\ [][NextDraw]_vars

-----------------------------------------------------------------------------
(* Window._get_face_color_from_projection_norm applied on its own: the    *)
(* scores k / ScoreDen, one after another; the last two results are kept  *)

BlueRanges == { <<BlueMinDefault, BlueMaxDefault>>, <<0, BlueMaxDefault>>,
                <<BlueMinDefault, BlueMinDefault>>, <<0, BlueMinDefault>> }

Score(k) == [num |-> k, rad |-> ScoreDen * ScoreDen]

LastTwo(s) == IF Len(s) <= 2 THEN s ELSE SubSeq(s, Len(s) - 1, Len(s))

InitColor ==
    /\ NoProgram
    /\ \E range \in BlueRanges : pure_args = [blue_min |-> range[1], blue_max |-> range[2]]
    /\ pure_result = <<>>

ApplyFaceColor ==
    /\ pc = "function"
    /\ \E k \in 0..ScoreDen :
          pure_result' =
              LastTwo(Append(pure_result,
                  [score |-> k,
                   color |-> get_face_color_from_projection_norm(
                                 Score(k), pure_args.blue_min, pure_args.blue_max)]))
    /\ UNCHANGED <<programVars, pure_args>>

NextColor == ApplyFaceColor

SpecColor == InitColor /\ [][NextColor]_vars

-----------------------------------------------------------------------------
(* Mesh.rotate_about_x_and_y applied on its own, call after call, to the   *)
(* vertex arrays the loader builds                                          *)

\* the vertex arrays of the well-formed files as loaded (not yet centred), and
\* one of four rows: that of the tetrahedron with a column more in every vertex row
RotateMeshes ==
    {read_mesh_from_file(f).vertices : f \in WellFormedFiles}
    \cup {read_mesh_from_file(AddColumn(Tetrahedron, VertexRows(Tetrahedron))).vertices}

\* the angles of -MaxTurns..MaxTurns quarter turns, as whole degrees and as
\* the quotients by the figure resolution that a drag hands over
RotateAngles ==
    { [num |-> 90 * k * den, den |-> den] :
         k \in (-MaxTurns)..MaxTurns, den \in {1, get_figure_resolution[1]} }

InitRotate ==
    /\ NoProgram
    /\ \E vs \in RotateMeshes :
          /\ pure_args = [vertices |-> vs]
          /\ pure_result = [vertices |-> vs, raised |-> "none"]

ApplyRotateAboutXAndY ==
    /\ pc = "function"
    /\ \E degrees_about_x \in RotateAngles, degrees_about_y \in RotateAngles :
          /\ pure_args' = [vertices |-> pure_result.vertices,
                           degrees_about_x |-> degrees_about_x,
                           degrees_about_y |-> degrees_about_y]
          /\ pure_result' =
                IF MatMulRaises(pure_result.vertices)
                THEN [vertices |-> pure_result.vertices, raised |-> "ValueError"]
                ELSE [vertices |-> rotate_about_x_and_y(pure_result.vertices,
                                                        degrees_about_x, degrees_about_y),
                      raised |-> "none"]
    /\ UNCHANGED programVars

NextRotate == ApplyRotateAboutXAndY

SpecRotate == InitRotate /\ [][NextRotate]_vars

-----------------------------------------------------------------------------
(* Properties *)

Running == pc = "running"

\* the row sums of the vertex array: all zero exactly when the centroid is the origin
RowSums(vs) == [i \in 1..Dim(vs) |-> SumSeq([j \in 1..Len(vs) |-> vs[j][i]])]
CentroidAtOrigin(vs) == \A i \in 1..Dim(vs) : RowSums(vs)[i] = 0

\* the means the model takes are exact
MeanIsExact ==
    Running => \A i \in 1..Dim(vertices) : RowSums(vertices)[i] % Len(vertices) = 0

\* a / b = num / den, for positive b and den
RationalEq(q, num, den) == q.num * den = num * q.den

\* C1: the edge set of a loaded mesh holds no two entries for the same unordered
\* pair of vertices: with (a, b) it does not also hold (b, a).
C1_NoEdgeInBothDirections ==
    Running => \A e \in edge_indices :
                   e[1] # e[2] => <<e[2], e[1]>> \notin edge_indices

\* a vertex row that has not 4 columns, a face row that has not 3, a field
\* that is no number, or a face vertex id outside 1..numVertices
MalformedRow(f, r) ==
    \/ ~ AllNumeric(f[r])
    \/ (r \in VertexRows(f) /\ Len(f[r]) # 4)
    \/ (r \in FaceRows(f) /\ Len(f[r]) # 3)
    \/ (r \in FaceRows(f) /\ \E c \in 1..Len(f[r]) :
            f[r][c][1] < 1 \/ f[r][c][1] > HeaderVertices(f))
Malformed(f) == \E r \in 2..Len(f) : MalformedRow(f, r)

\* C2: loading a file with a malformed row fails (no Mesh, no running
\* application), so every face index of a loaded mesh is in [0, num_vertices).
C2_MalformedFileFailsToLoad ==
    /\ (pc # "start" /\ Malformed(file)) => pc = "load_failed"
    /\ Running => \A f \in 1..Len(faces) : \A p \in 1..Len(faces[f]) :
                      0 <= faces[f][p] /\ faces[f][p] < num_vertices

\* C3: for lists of equal length draw_triangles draws every face once, with
\* its own colour, in non-decreasing order of the render-order values, and
\* faces of equal value in their input order.
C3_DrawnOnceInStableAscendingOrder ==
    (/\ pc = "function"
     /\ pure_result.done
     /\ Len(pure_args.triangles) = Len(pure_args.colors)
     /\ Len(pure_args.colors) = Len(pure_args.render_order_values))
    => LET n == Len(pure_args.triangles)
           p == pure_result.patches
           key == pure_args.render_order_values
           IndexOf(j) == CHOOSE i \in 1..n : pure_args.triangles[i] = p[j].points
       IN  /\ Len(p) = n
           /\ \A i \in 1..n : \E j \in 1..n : p[j].points = pure_args.triangles[i]
           /\ \A j \in 1..n : p[j].color = pure_args.colors[IndexOf(j)]
           /\ \A j, k \in 1..n :
                 j < k => \/ key[IndexOf(j)] < key[IndexOf(k)]
                          \/ (key[IndexOf(j)] = key[IndexOf(k)] /\ IndexOf(j) < IndexOf(k))

\* three faces drawn, the first given with the highest value, the other two tied
C3_Witness ==
    /\ pc = "function"
    /\ pure_result.done
    /\ pure_result.raised = "none"
    /\ Len(pure_result.patches) = 3
    /\ Len(pure_args.colors) = 3
    /\ pure_args.render_order_values[1] > pure_args.render_order_values[2]
    /\ pure_args.render_order_values[2] = pure_args.render_order_values[3]

\* the step is a pointer-move with both coordinates, received while DRAGGING
ValidDragMove ==
    /\ Running
    /\ mouse_is_pressed
    /\ event'.name = "on_motion"
    /\ ~ IsNone(event'.x)
    /\ ~ IsNone(event'.y)

\* C4: a pointer-move with both coordinates received while DRAGGING rotates
\* the mesh by degreesX = -(dy / resolution_y) * D and degreesY =
\* (dx / resolution_x) * D, (dx, dy) measured from the last recorded position,
\* then recenters it, then records the current position.
C4_DragMoveRotatesRecentersRecords ==
    [][ ValidDragMove =>
          LET dx == Get(event'.x) - Get(last_mouse_drag_location[1])
              dy == Get(event'.y) - Get(last_mouse_drag_location[2])
              degreesX == [num |-> (- dy) * DegreesPerFullScreenMouseMove,
                           den |-> get_figure_resolution[2]]
              degreesY == [num |-> dx * DegreesPerFullScreenMouseMove,
                           den |-> get_figure_resolution[1]]
          IN  /\ raised' = "none"
              /\ Len(calls') = 2
              /\ calls'[1].name = "rotate_about_x_and_y"
              /\ RationalEq(calls'[1].args[1], degreesX.num, degreesX.den)
              /\ RationalEq(calls'[1].args[2], degreesY.num, degreesY.den)
              /\ calls'[2].name = "center_at_origin"
              /\ last_mouse_drag_location' = <<event'.x, event'.y>>
              /\ vertices' = center_at_origin(
                                 rotate_about_x_and_y(vertices, degreesX, degreesY))
      ]_vars

\* C5: a pointer-move received while DRAGGING with x or y missing is ignored:
\* the mesh is neither rotated nor recentered, the recorded position and the
\* DRAGGING state stay, and nothing is raised.
C5_MoveWithMissingCoordinateIgnored ==
    [][ (/\ Running
         /\ mouse_is_pressed
         /\ event'.name = "on_motion"
         /\ (IsNone(event'.x) \/ IsNone(event'.y)))
        => /\ vertices' = vertices
           /\ calls' = <<>>
           /\ last_mouse_drag_location' = last_mouse_drag_location
           /\ mouse_is_pressed'
           /\ raised' = "none"
      ]_vars

\* a move without its x coordinate has been handled while DRAGGING
C5_Witness ==
    /\ Running
    /\ mouse_is_pressed
    /\ event.name = "on_motion"
    /\ IsNone(event.x)
    /\ ~ IsNone(event.y)
    /\ last_mouse_drag_location = <<Some(PixelStep), Some(0)>>

\* C6: from any controller state a press gives DRAGGING with the press
\* coordinates recorded, a release gives IDLE with the recorded position
\* cleared, and neither changes the mesh.
C6_PressAndRelease ==
    [][ /\ (Running /\ event'.name = "on_press")
           => /\ mouse_is_pressed'
              /\ last_mouse_drag_location' = <<event'.x, event'.y>>
              /\ UNCHANGED meshVars
        /\ (Running /\ event'.name = "on_release")
           => /\ ~ mouse_is_pressed'
              /\ last_mouse_drag_location' = None
              /\ UNCHANGED meshVars
      ]_vars

\* a release has been handled, after the mesh had been turned
C6_Witness ==
    /\ Running
    /\ event.name = "on_release"
    /\ ~ mouse_is_pressed
    /\ \E j \in 1..Len(vertices) :
          DistSqFromCenter(vertices, j) > 0 /\ vertices[j] # center_at_origin(
              read_mesh_from_file(file).vertices)[j]

\* C7: after any sequence of events every vertex is as far from the centroid
\* as it was at load time, the furthest distance still is the window limit,
\* and every projected vertex lies within +/- the limit on both axes.
C7_DistancesFromCentroidKept ==
    Running =>
        /\ \A j \in 1..Len(vertices) :
              DistSqFromCenter(vertices, j) = dist_sq_at_load[j]
        /\ get_furthest_vertex_distance_sq(vertices) = limit_sq
        /\ \A j \in 1..Len(vertices) :
              \A i \in 1..Len(project_vertices_onto_window(vertices)[j]) :
                 project_vertices_onto_window(vertices)[j][i]
                    * project_vertices_onto_window(vertices)[j][i] <= limit_sq

\* a drag has just turned the mesh about both axes
C7_Witness ==
    /\ Running
    /\ event.name = "on_motion"
    /\ raised = "none"
    /\ Len(calls) = 2
    /\ calls[1].args[1].num # 0
    /\ calls[1].args[2].num # 0
    /\ vertices # center_at_origin(read_mesh_from_file(file).vertices)

\* C8: the colour of an alignment score s in [0, 1] is (0, 0, b, 1) with
\* b = blue_min / 255 at s = 0, b = blue_max / 255 at s = 1, b non-decreasing
\* in s, and so b within [blue_min / 255, blue_max / 255].
\* BlueTimes(c) is 255 * ScoreDen * b for a colour c of a score k / ScoreDen.
BlueTimes(c) == c[3].int * ScoreDen + c[3].num
C8_BlueInterpolatesMinToMax ==
    pc = "function" /\ "blue_min" \in DOMAIN pure_args =>
        /\ \A h \in 1..Len(pure_result) :
              LET c == pure_result[h].color
              IN  /\ c[1] = 0 /\ c[2] = 0 /\ c[4] = 1
                  /\ c[3].den = BlueScale
                  /\ c[3].rad = ScoreDen * ScoreDen
                  /\ pure_result[h].score = 0
                        => BlueTimes(c) = pure_args.blue_min * ScoreDen
                  /\ pure_result[h].score = ScoreDen
                        => BlueTimes(c) = pure_args.blue_max * ScoreDen
                  /\ pure_args.blue_min * ScoreDen <= BlueTimes(c)
                  /\ BlueTimes(c) <= pure_args.blue_max * ScoreDen
        /\ \A g, h \in 1..Len(pure_result) :
              pure_result[g].score <= pure_result[h].score
                 => BlueTimes(pure_result[g].color) <= BlueTimes(pure_result[h].color)

\* the default range applied to score 1 and then to a score strictly between 0 and 1
C8_Witness ==
    /\ pc = "function"
    /\ "blue_min" \in DOMAIN pure_args
    /\ pure_args.blue_min = BlueMinDefault
    /\ pure_args.blue_max = BlueMaxDefault
    /\ Len(pure_result) = 2
    /\ pure_result[1].score = ScoreDen
    /\ pure_result[2].score = 1

\* C9: every rotation the controller applies is followed by center_at_origin
\* in the same callback, so in every state a render tick can find, and at
\* startup, the centroid of the mesh is at the origin.
C9_RecenteredAfterEveryRotation ==
    Running =>
        /\ \A i \in 1..Len(calls) :
              (calls[i].name = "rotate_about_x_and_y"
                 /\ ~ (i = Len(calls) /\ raised # "none"))
              => (i < Len(calls) /\ calls[i + 1].name = "center_at_origin")
        /\ CentroidAtOrigin(vertices)

\* a render tick that follows a drag which turned the mesh
C9_Witness ==
    /\ Running
    /\ event.name = "update"
    /\ raised = "none"
    /\ mouse_is_pressed
    /\ vertices # center_at_origin(read_mesh_from_file(file).vertices)

\* C10: get_face_normals does not divide the normal of a degenerate face by
\* its zero length: no normal a render tick computes has a component 0/0.
C10_NoNormalDividedByZeroLength ==
    (Running /\ frame.computed) =>
        \A f \in 1..Len(frame.normals) : \A i \in 1..3 : ~ IsNaN(frame.normals[f][i])

\* the elementary rotations about the x axis and about the y axis
RotationAboutX(degrees) ==
    << <<1, 0, 0>>,
       <<0, CosDeg(degrees), -SinDeg(degrees)>>,
       <<0, SinDeg(degrees), CosDeg(degrees)>> >>
RotationAboutY(degrees) ==
    << <<CosDeg(degrees), 0, SinDeg(degrees)>>,
       <<0, 1, 0>>,
       <<-SinDeg(degrees), 0, CosDeg(degrees)>> >>

\* the product A * B of two 3 x 3 matrices, each a tuple of rows
MatrixProduct(A, B) ==
    [i \in 1..3 |-> [j \in 1..3 |-> SumSeq([k \in 1..3 |-> A[i][k] * B[k][j]])]]

\* two calls of Mesh.rotate: about the x axis, then about the y axis
RotatedAboutXThenY(vs, degrees_about_x, degrees_about_y) ==
    IF MatMulRaises(vs)
    THEN [vertices |-> vs, raised |-> "ValueError"]
    ELSE [vertices |-> rotate(rotate(vs, RotationAboutX(degrees_about_x)),
                              RotationAboutY(degrees_about_y)),
          raised |-> "none"]

\* C11: the matrix R of rotate_about_x_and_y(degreesX, degreesY) is the product
\* Ry(degreesY) * Rx(degreesX) of the two elementary rotations, and the call
\* leaves the vertices that a rotation about x by degreesX followed by a
\* rotation about y by degreesY leaves.
C11_ClosedFormIsRotationAboutXThenY ==
    (pc = "function" /\ "degrees_about_x" \in DOMAIN pure_args) =>
        /\ RotationMatrix(pure_args.degrees_about_x, pure_args.degrees_about_y)
              = MatrixProduct(RotationAboutY(pure_args.degrees_about_y),
                              RotationAboutX(pure_args.degrees_about_x))
        /\ pure_result = RotatedAboutXThenY(pure_args.vertices,
                                            pure_args.degrees_about_x,
                                            pure_args.degrees_about_y)

\* a call that turned the mesh a quarter turn about x and three about y
C11_Witness ==
    /\ pc = "function"
    /\ "degrees_about_x" \in DOMAIN pure_args
    /\ pure_result.raised = "none"
    /\ QuarterTurns(pure_args.degrees_about_x) = 1
    /\ QuarterTurns(pure_args.degrees_about_y) = 3
    /\ pure_result.vertices # pure_args.vertices
    /\ pure_result.vertices # rotate(pure_args.vertices,
                                     RotationAboutX(pure_args.degrees_about_x))

\* C12: after construction, whatever events and render ticks follow, faces,
\* num_faces, num_vertices and edge_indices are what the constructor made of
\* the file; only the vertex positions change.
C12_TopologyAsConstructed ==
    (pc = "running" \/ pc = "exited") =>
        LET built == read_mesh_from_file(file)
        IN  /\ faces = built.faces
            /\ num_faces = built.num_faces
            /\ num_vertices = built.num_vertices
            /\ edge_indices = built.edge_indices
            /\ num_faces = Len(faces)
            /\ num_vertices = Len(vertices)

\* a render tick has drawn the faces of a mesh that drags have turned
C12_Witness ==
    /\ Running
    /\ event.name = "update"
    /\ Len(drawn.patches) = num_faces
    /\ ~ mouse_is_pressed
    /\ vertices # center_at_origin(read_mesh_from_file(file).vertices)

\* C13: while the application runs the vertex positions change only in a
\* pointer-move received while DRAGGING with both coordinates present: a
\* render tick, a press, a release, a key, a move while IDLE and a move with
\* a missing coordinate leave them as they are.
C13_OnlyDragMoveWritesVertices ==
    [][ Running =>
          /\ (vertices' # vertices)
                => /\ event'.name = "on_motion"
                   /\ mouse_is_pressed
                   /\ ~ IsNone(event'.x)
                   /\ ~ IsNone(event'.y)
          /\ (event'.name \in {"update", "on_press", "on_release", "on_key_press"})
                => vertices' = vertices
          /\ (event'.name = "on_motion"
                 /\ (~ mouse_is_pressed \/ IsNone(event'.x) \/ IsNone(event'.y)))
                => vertices' = vertices
      ]_vars

\* a move with both coordinates has been handled while IDLE, the pointer
\* away from the origin, on a mesh that earlier drags have turned
C13_Witness ==
    /\ Running
    /\ event.name = "on_motion"
    /\ ~ mouse_is_pressed
    /\ event.x = Some(PixelStep)
    /\ event.y = Some(PixelStep)
    /\ calls = <<>>
    /\ vertices # center_at_origin(read_mesh_from_file(file).vertices)

\* C14: in every state after startup mouse_is_pressed is true exactly when
\* last_mouse_drag_location is set, and no callback has failed reading an
\* unset last position in rotate_mesh_based_on_mouse_move.
C14_PressedIffLocationSet ==
    Running =>
        /\ mouse_is_pressed <=> ~ IsNone(last_mouse_drag_location)
        /\ raised # "TypeError"

\* a drag move has just read the last position and recorded its own
C14_Witness ==
    /\ Running
    /\ event.name = "on_motion"
    /\ mouse_is_pressed
    /\ Len(calls) = 2
    /\ last_mouse_drag_location = <<event.x, event.y>>
    /\ last_mouse_drag_location = <<Some(0), Some(PixelStep)>>

====
